---- MODULE Spec2Model ----
(***************************************************************************)
(* Build queue, worker pool, status query and retention sweeper of         *)
(* demo2apk (packages/backend: services/queue.ts and the worker in         *)
(* index.ts; packages/core: html-builder.ts and the React builder).        *)
(*                                                                         *)
(* The queue store is BullMQ: queue.add with a jobId that already exists   *)
(* adds nothing, jobs wait in FIFO order, a Worker runs at most            *)
(* `concurrency` processors at a time, a job whose processor returns is    *)
(* moved to "completed" with the returned value and a job whose processor  *)
(* rejects is moved to "failed"; job.remove() on a job a worker holds      *)
(* throws and removes nothing.  Worker crashes and stalled-job recovery    *)
(* are outside the model.                                                  *)
(***************************************************************************)
EXTENDS Integers, Sequences, FiniteSets, TLC

(***************************************************************************)
(* Bounds of the model.                                                    *)
(***************************************************************************)
\* the clock runs over 0..MaxTime, in hours
MaxTime == 1
\* how many times a job may be added in one behaviour
MaxSubmits == 2
\* the values WORKER_CONCURRENCY may have at start-up
Concurrencies == {1, 2}

\* index.ts: FILE_RETENTION_HOURS = parseInt(process.env.FILE_RETENTION_HOURS || '2'),
\* the retention window the deployment configures, in hours
FILE_RETENTION_HOURS == 0

TaskIds == {"t1", "t2", "t3"}
\* the ids the smaller specifications submit
TwoIds == {"t1", "t2"}
BuildTypes == {"html", "zip"}
\* app names are sequences of characters; "A" and "A " differ as names
AppNames == {<<"A">>, <<"A", " ">>}

NoPercent == -1
NoTask == "none"
NoJob == [state |-> "absent"]
NoProgress == [percent |-> NoPercent]
NoResult == [none |-> TRUE]
NotRunning == [pc |-> -1, res |-> NoResult]
NoSweep == [ran |-> FALSE, failed |-> {}]

(***************************************************************************)
(* Pure helpers of the builders.                                           *)
(***************************************************************************)
WordChars == {"A", "B", "a", "b", "0", "1", "_"}

\* /[^\w.-]/ -> '_'
ReplaceNonWord(s) ==
  [i \in 1..Len(s) |-> IF s[i] \in WordChars \cup {".", "-"} THEN s[i] ELSE "_"]

RECURSIVE CollapseUnderscores(_)
\* /_+/g -> '_'
CollapseUnderscores(s) ==
  IF Len(s) < 2 THEN s
  ELSE IF s[1] = "_" /\ s[2] = "_" THEN CollapseUnderscores(Tail(s))
  ELSE <<s[1]>> \o CollapseUnderscores(Tail(s))

\* /^_|_$/g -> ''
TrimUnderscores(s) ==
  LET a == IF Len(s) > 0 /\ s[1] = "_" THEN Tail(s) ELSE s
  IN  IF Len(a) > 0 /\ a[Len(a)] = "_" THEN SubSeq(a, 1, Len(a) - 1) ELSE a

sanitizeDirName(name) ==
  LET r == TrimUnderscores(CollapseUnderscores(ReplaceNonWord(name)))
  IN  IF r = <<>> THEN <<"p", "r", "o", "j", "e", "c", "t">> ELSE r

(***************************************************************************)
(* html-builder.ts generateAppId.  A name is a sequence of characters; a   *)
(* character outside ASCII is written by its code point.                   *)
(***************************************************************************)
LowerLetters ==
  <<"a", "b", "c", "d", "e", "f", "g", "h", "i", "j", "k", "l", "m",
    "n", "o", "p", "q", "r", "s", "t", "u", "v", "w", "x", "y", "z">>
UpperLetters ==
  <<"A", "B", "C", "D", "E", "F", "G", "H", "I", "J", "K", "L", "M",
    "N", "O", "P", "Q", "R", "S", "T", "U", "V", "W", "X", "Y", "Z">>
Digits == {"0", "1", "2", "3", "4", "5", "6", "7", "8", "9"}
Letters == {LowerLetters[i] : i \in DOMAIN LowerLetters}

\* the characters names are drawn from: letters of both cases, a digit, a
\* separator, two Chinese characters and an accented Latin letter
NameChars == {"a", "B", "7", "-", "U+6211", "U+7EFF", "U+00E9"}

\* the longest name head, and the length of the run of one character after it
MaxNameLen == 3
MaxPad == 30
PadLens == {0, MaxPad - 2, MaxPad}
PadChars == {"b", "7"}

RECURSIVE Flatten(_)
Flatten(ss) == IF ss = <<>> THEN <<>> ELSE Head(ss) \o Flatten(Tail(ss))

\* pinyin-pro, toneType 'none': a Chinese character becomes its syllable
\* (U+7EFF is "l" + U+00FC), nonZh 'consecutive' keeps every other character
pinyin(s) ==
  [i \in 1..Len(s) |->
     CASE s[i] = "U+6211" -> <<"w", "o">>
       [] s[i] = "U+7EFF" -> <<"l", "U+00FC">>
       [] OTHER -> <<s[i]>>]

toLowerCase(s) ==
  [i \in 1..Len(s) |->
     IF \E k \in DOMAIN UpperLetters : UpperLetters[k] = s[i]
     THEN LowerLetters[CHOOSE k \in DOMAIN UpperLetters : UpperLetters[k] = s[i]]
     ELSE s[i]]

\* .replace(/[^a-z0-9]+/g, '')
StripNonAlnum(s) == SelectSeq(s, LAMBDA c : c \in Letters \cup Digits)

MAX_SUFFIX_LENGTH == 30

\* mutation of slice: the suffix keeps its length
sliceNothing(s, n) == s

\* sanitized.slice(0, MAX_SUFFIX_LENGTH)
slice(s, n) == SubSeq(s, 1, IF Len(s) < n THEN Len(s) ELSE n)

PackagePrefix == <<"c", "o", "m", ".", "d", "e", "m", "o", "2", "a", "p", "k", ".">>

\* `throws` is whether the pinyin call throws (the catch keeps the name)
generateAppId(appName, throws) ==
  LET latinName == IF throws THEN appName ELSE Flatten(pinyin(appName))
      stripped  == StripNonAlnum(toLowerCase(latinName))
      nonEmpty  == IF stripped = <<>> THEN <<"a", "p", "p">> ELSE stripped
      sanitized == IF nonEmpty[1] \in Letters THEN nonEmpty ELSE <<"a">> \o nonEmpty
  IN  PackagePrefix \o slice(sanitized, MAX_SUFFIX_LENGTH)

(***************************************************************************)
(* Paths under BUILDS_DIR.                                                 *)
(***************************************************************************)
\* routes/build.ts: `${taskId}-project.zip` in config.buildsDir
ProjectZipPath(id) == <<"project-zip", id>>

\* html-builder.ts: workDir = join(outputDir, sanitizeDirName(appName))
HtmlWorkDir(appName) == <<"dir", sanitizeDirName(appName)>>

\* React builder: workDir = join(outputDir, `${appName}-build`)
ReactWorkDir(appName) == <<"dir", appName \o <<"-", "b", "u", "i", "l", "d">> >>

WorkDirPath(type, appName) ==
  IF type = "html" THEN HtmlWorkDir(appName) ELSE ReactWorkDir(appName)

\* html-builder.ts: options.taskId ? `${appName}--${taskId}.apk` : `${appName}.apk`
HtmlApkPath(appName, id) ==
  IF id # NoTask THEN <<"apk", appName, id>> ELSE <<"apk", appName, NoTask>>

\* React builder: apkDest = join(outputDir, `${appName}.apk`)
ReactApkPath(appName, id) == <<"apk", appName, NoTask>>

ApkPath(type, appName, id) ==
  IF type = "html" THEN HtmlApkPath(appName, id) ELSE ReactApkPath(appName, id)

(***************************************************************************)
(* The builders as scripts.  One step is the code up to and including the  *)
(* next onProgress call: `pre` names what runs before the call, `p` is the *)
(* percent argument (NoPercent when the call passes none), `opt` tells     *)
(* whether the call sits in a branch that may not be taken and `skip` how  *)
(* many steps are passed over when it is not.                              *)
(***************************************************************************)
St(pre, p) == [pre |-> pre, p |-> p, opt |-> FALSE, skip |-> 1]
Opt(p, skip) == [pre |-> "none", p |-> p, opt |-> TRUE, skip |-> skip]

\* html-builder.ts buildHtmlToApk, with injectIcon and ensureGradleWrapper inlined
HtmlScript ==
  << St("none", 5),        \* Checking build environment...
     Opt(10, 1),           \* Installing Cordova CLI...
     Opt(15, 1),           \* Offlineifying HTML resources...
     St("mkdir", 25),      \* fs.remove(workDir); ensureDir; Creating Cordova project...
     St("cmd", 32),        \* cordova create; Installing cordova-android...
     St("cmd", 38),        \* pnpm add; Adding Android platform...
     St("cmd", 42),        \* cordova platform add; Injecting app icon...
     St("none", 42),       \* injectIcon(workDir, iconPath, onProgress, 42)
     St("cmd", 45),        \* icon files written; Preparing web resources...
     St("populate", 55),   \* www filled from the upload; Syncing resources...
     St("cmd", 60),        \* cordova prepare; Setting up Gradle...
     St("none", 60),       \* ensureGradleWrapper(androidDir, onProgress, 60)
     Opt(NoPercent, 1),    \* onProgress?.(`Downloading Gradle ...`)
     St("cmd", 70),        \* gradle wrapper; Building APK...
     St("gradle", 95),     \* ./gradlew assembleDebug; Exporting APK...
     St("export", 100) >>  \* copy to apkDest, remove workDir; Build completed!

\* React builder buildReactToApk, with injectIconCapacitor inlined
ReactScript ==
  << St("checkInput", 5),  \* pathExists(zipPath); Checking build environment...
     St("mkdir", 10),      \* fs.remove(workDir); ensureDir; Extracting project...
     St("populate", 15),   \* unzip; Analyzing project...
     St("none", 18),       \* Detected ... project
     Opt(20, 1),           \* Configuring Next.js for static export...
     Opt(22, 2),           \* Fixing / verifying Vite project...
     Opt(24, 1),           \* Applied fixes: ...
     Opt(23, 1),           \* Removed existing capacitor.config.ts
     Opt(23, 1),           \* Removed existing capacitor.config.js
     St("none", 25),       \* Installing dependencies...
     St("cmd", 40),        \* install; Building React project...
     St("cmd", 55),        \* build; Installing Capacitor...
     St("cmd", 60),        \* add capacitor; Configuring Capacitor...
     St("cmd", 65),        \* config written; Adding Android platform...
     St("cmd", 70),        \* cap add android; Syncing web resources...
     St("cmd", 75),        \* cap sync; Injecting app icon...
     St("none", NoPercent),\* injectIconCapacitor(androidDir, iconPath, onProgress)
     St("cmd", 80),        \* icons written; Building APK...
     St("gradle", 95),     \* ./gradlew assembleDebug; Exporting APK...
     St("export", 100) >>  \* copy to apkDest; Build completed!

Script(type) == IF type = "html" THEN HtmlScript ELSE ReactScript

\* builder's catch: { success: false, error: message }
BuilderFailure(msg) == [success |-> FALSE, apkPath |-> <<>>, error |-> msg]
BuilderSuccess(path) == [success |-> TRUE, apkPath |-> path, error |-> ""]

\* index.ts onProgress: job.updateProgress({ message, percent: percent ?? 0 })
onProgress(progress, percent) ==
  [percent |-> IF percent = NoPercent THEN 0 ELSE percent]

(***************************************************************************)
(* State.                                                                  *)
(***************************************************************************)
VARIABLES
  now,          \* wall clock (hours)
  concurrency,  \* WORKER_CONCURRENCY, read once at start-up
  jobs,         \* the queue store: task id -> job record or NoJob
  wait,         \* BullMQ's wait list, oldest first
  run,          \* per task id: the running processor's position, or NotRunning
  files,        \* entries under BUILDS_DIR: path -> [mtime, src, apk]
  rm,           \* the removeJob call in progress and its last outcome
  poll,         \* what the status poller last received
  sweep,        \* the cleanup pass run at the current clock value, if any:
                \* the entries whose stat or unlink threw in it
  hist,         \* history: per id, add calls, records created, processor runs,
                \* removals, and how many jobs waited behind it when it was taken
  gen,          \* a call of generateAppId: its argument and, once it has
                \* returned, its value
  cleanup,      \* the cleanup schedule: FILE_CLEANUP_ENABLED, the intervals
                \* elapsed since start-up, the passes run so far
  stat,         \* the getJobStatus call in progress: the job it fetched, then its answer
  store,        \* the frontend build store: taskId, status, progress, error, downloadUrl
  loops,        \* per task id: whether a pollBuildStatus loop of the frontend is running
  sink          \* the worker's Redis connection: the progress writes sent and not yet applied

vars == <<now, concurrency, jobs, wait, run, files, rm, poll, sweep, hist, gen, cleanup, stat, store, loops, sink>>

Entry(mtime, src, apk) == [mtime |-> mtime, src |-> src, apk |-> apk]

Put(fs, path, entry) == [q \in DOMAIN fs \cup {path} |-> IF q = path THEN entry ELSE fs[q]]
Del(fs, paths) == [q \in DOMAIN fs \ paths |-> fs[q]]

RECURSIVE Without(_, _)
Without(seq, id) ==
  IF seq = <<>> THEN <<>>
  ELSE IF Head(seq) = id THEN Without(Tail(seq), id)
  ELSE <<Head(seq)>> \o Without(Tail(seq), id)

Active == {id \in TaskIds : jobs[id].state = "active"}
Waiting == {id \in TaskIds : jobs[id].state = "waiting"}

RECURSIVE SumOver(_, _)
SumOver(S, field) ==
  IF S = {} THEN 0
  ELSE LET x == CHOOSE y \in S : TRUE IN hist[x][field] + SumOver(S \ {x}, field)

Total(field) == SumOver(TaskIds, field)

Bump(id, field) == [hist EXCEPT ![id][field] = @ + 1]

\* index.ts 660-677: with FILE_CLEANUP_ENABLED the worker runs one cleanup
\* pass at start-up and schedules the periodic one; otherwise it runs none
Scheduled(enabled) ==
  [enabled |-> enabled, elapsed |-> 0, passes |-> IF enabled THEN 1 ELSE 0]

\* what a getJobStatus call has returned before it returns
NoAnswer == [status |-> "none", percent |-> NoPercent, result |-> NoResult, error |-> ""]

\* no getJobStatus call is under way and none has returned
NoStatusCall == [pc |-> "idle", id |-> NoTask, job |-> NoJob, out |-> NoAnswer]

\* who wrote the store last (history): the store's own actions, or the poll
\* loop of a task id
Writer(kind, id) == [kind |-> kind, id |-> id]

\* the store as created: status 'idle', progress 0, taskId, downloadUrl and
\* error null
IdleStore ==
  [ taskId |-> NoTask, status |-> "idle", progress |-> 0, error |-> "",
    downloadUrl |-> NoTask, by |-> Writer("create", NoTask) ]

\* no pollBuildStatus call has been made
NoLoops == [id \in TaskIds |-> "none"]

\* no progress write has been sent
NoWrites ==
  [ q |-> <<>>,
    sent |-> [id \in TaskIds |-> 0],
    stored |-> [id \in TaskIds |-> 0],
    last |-> [id \in TaskIds |-> NoPercent] ]

\* no call of generateAppId is under way
NoCall == [appName |-> <<>>, appId |-> <<>>, done |-> FALSE, throws |-> FALSE]

Init ==
  /\ now = 0
  /\ concurrency \in Concurrencies
  /\ jobs = [id \in TaskIds |-> NoJob]
  /\ wait = <<>>
  /\ run = [id \in TaskIds |-> NotRunning]
  /\ files = <<>>
  /\ rm = [pc |-> "idle", id |-> NoTask, state |-> "none", result |-> "none"]
  /\ poll = [id |-> NoTask, seq |-> 0, status |-> "none", percent |-> NoPercent]
  /\ sweep = NoSweep
  /\ hist = [id \in TaskIds |->
               [adds |-> 0, created |-> 0, execs |-> 0, removed |-> 0, behind |-> 0]]
  /\ gen = NoCall
  /\ cleanup = Scheduled(TRUE)
  /\ stat = NoStatusCall
  /\ store = IdleStore
  /\ loops = NoLoops
  /\ sink = NoWrites

(***************************************************************************)
(* Submission: routes/build.ts and queue.ts addBuildJob.                   *)
(***************************************************************************)
NewJob(data) ==
  [ state |-> "waiting", data |-> data, progress |-> NoProgress,
    returnvalue |-> NoResult, failedReason |-> "",
    timestamp |-> now, seq |-> Total("created") + 1, finishedOn |-> -1 ]

\* mutation of JobIdIsNew: every add creates a record
JobIdAlwaysNew(id) == TRUE

\* queue.add(name, data, { jobId }) adds nothing when the id is already stored
JobIdIsNew(id) == jobs[id] = NoJob

\* mutation of Enqueue: the job is added with lifo, at the head of the list
EnqueueLifo(w, id) == <<id>> \o Without(w, id)

\* queue.add without priority, delay or lifo puts the job at the tail of the
\* wait list
Enqueue(w, id) == Append(Without(w, id), id)

\* const job = await queue.add(data.taskId, data, { jobId: data.taskId })
QueueAdd(id, data) ==
  /\ IF JobIdIsNew(id)
     THEN /\ jobs' = [jobs EXCEPT ![id] = NewJob(data)]
          /\ wait' = Enqueue(wait, id)
          /\ hist' = [hist EXCEPT ![id].adds = @ + 1, ![id].created = @ + 1]
     ELSE /\ hist' = Bump(id, "adds")
          /\ UNCHANGED <<jobs, wait>>

\* a call of addBuildJob with a task id of the caller's choice
addBuildJob(id, type, appName) ==
  /\ Total("adds") < MaxSubmits
  /\ QueueAdd(id, [type |-> type, appName |-> appName])
  /\ UNCHANGED <<now, concurrency, run, files, rm, poll, sweep, gen, cleanup, stat, store, loops, sink>>

\* the route draws a fresh taskId (nanoid), writes `${taskId}-project.zip`
\* (React component wrapped into a project), then calls addBuildJob
Submit(id, type, appName) ==
  /\ hist[id].adds = 0
  /\ files' = IF type = "zip"
              THEN Put(files, ProjectZipPath(id), Entry(now, id, NoTask))
              ELSE files
  /\ QueueAdd(id, [type |-> type, appName |-> appName])
  /\ UNCHANGED <<now, concurrency, run, rm, poll, sweep, gen, cleanup, stat, store, loops, sink>>

(***************************************************************************)
(* Worker: queue.ts createBuildWorker (BullMQ Worker, concurrency option). *)
(***************************************************************************)
\* mutation of HasFreeSlot: the worker keeps one of its slots unused
HasFreeSlotButOne == Cardinality(Active) < concurrency - 1

\* mutation of HasFreeSlot: the worker takes a job whenever one waits
HasFreeSlotAlways == TRUE

\* new Worker('build', processor, { concurrency })
HasFreeSlot == Cardinality(Active) < concurrency

\* mutation of NextJob: the worker takes the newest entry of the wait list
NewestJob(w) == w[Len(w)]

\* the worker takes the oldest entry of the wait list
NextJob(w) == Head(w)

Dequeue ==
  /\ wait # <<>>
  /\ HasFreeSlot
  /\ LET id == NextJob(wait) IN
       /\ jobs' = [jobs EXCEPT ![id].state = "active"]
       /\ wait' = Without(wait, id)
       /\ run' = [run EXCEPT ![id] = [pc |-> 1, res |-> NoResult]]
       /\ hist' = [hist EXCEPT ![id].execs = @ + 1, ![id].behind = Len(wait) - 1]
  /\ UNCHANGED <<now, concurrency, files, rm, poll, sweep, gen, cleanup, stat, store, loops, sink>>

(***************************************************************************)
(* The processor: index.ts processBuildJob running a builder.              *)
(***************************************************************************)
\* mutation of Emit: the write lands on every stored job, not on the job of
\* the processor that called onProgress
EmitToEveryJob(id, p) ==
  [o \in TaskIds |->
     IF jobs[o] = NoJob THEN NoJob ELSE [jobs[o] EXCEPT !.progress = onProgress(@, p)]]

\* onProgress closes over the job of its processor: job.updateProgress(...)
Emit(id, p) == [jobs EXCEPT ![id].progress = onProgress(@, p)]
Advance(id, n) == [run EXCEPT ![id].pc = @ + n]
Returned(id, result) == [run EXCEPT ![id] = [pc |-> 0, res |-> result]]

\* fs.copy(apkSource, apkDest), then (HTML builder only) fs.remove(workDir)
Exported(type, wd, apk) ==
  LET copied == Put(files, apk, Entry(now, NoTask, files[wd].apk))
  IN  IF type = "html" THEN Del(copied, {wd}) ELSE copied

\* an execa call throws when its cwd is gone, and ./gradlew assembleDebug
\* when the project does not build; the builder's catch turns the exception
\* into { success: false, error }
CommandFails(pre, wd) ==
  \/ wd \notin DOMAIN files
  \/ pre = "gradle"

\* the progress write a step sends is applied before any other step
StoredAtOnce(id, p) == jobs' = Emit(id, p) /\ UNCHANGED sink

\* a step that calls onProgress with nothing, or returns before it does
NothingStored == UNCHANGED <<jobs, sink>>

\* the writes a run of the model keeps in flight at a time
MaxInFlight == 2

\* onProgress?.(message, percent) is not awaited: job.updateProgress sends the
\* write on the worker's connection and the Builder goes on
SentOnly(id, p) ==
  /\ Len(sink.q) < MaxInFlight
  /\ sink' = [sink EXCEPT !.q = Append(@, [id |-> id, percent |-> p, n |-> sink.sent[id] + 1]),
                          !.sent[id] = @ + 1,
                          !.last[id] = p]
  /\ UNCHANGED jobs

\* the step's onProgress call: its write is applied before the next step, or
\* it is only sent
Sent(id, p, atOnce) == IF atOnce THEN StoredAtOnce(id, p) ELSE SentOnly(id, p)

\* a step of buildHtmlToApk or buildReactToApk: the work up to the next
\* onProgress call, then the call
Builder(id, atOnce) ==
  /\ run[id] # NotRunning
  /\ jobs[id] # NoJob
  /\ run[id].res = NoResult
  /\ run[id].pc \in 1..Len(Script(jobs[id].data.type))
  /\ LET type == jobs[id].data.type
         name == jobs[id].data.appName
         step == Script(type)[run[id].pc]
         wd   == WorkDirPath(type, name)
         apk  == ApkPath(type, name, id)
     IN
     \/ /\ step.opt
        /\ run' = Advance(id, step.skip)
        /\ NothingStored /\ UNCHANGED files
     \/ /\ step.pre = "none"
        /\ Sent(id, step.p, atOnce)
        /\ run' = Advance(id, 1)
        /\ UNCHANGED files
     \/ /\ step.pre = "checkInput"
        /\ IF ProjectZipPath(id) \in DOMAIN files
           THEN /\ Sent(id, step.p, atOnce)
                /\ run' = Advance(id, 1)
           ELSE /\ run' = Returned(id, BuilderFailure("ZIP file not found"))
                /\ NothingStored
        /\ UNCHANGED files
     \/ /\ step.pre = "mkdir"
        /\ files' = Put(files, wd, Entry(now, NoTask, NoTask))
        /\ Sent(id, step.p, atOnce)
        /\ run' = Advance(id, 1)
     \/ /\ step.pre \in {"cmd", "populate", "gradle"}
        /\ CommandFails(step.pre, wd)
        /\ run' = Returned(id, BuilderFailure("Command failed"))
        /\ NothingStored /\ UNCHANGED files
     \/ /\ step.pre = "cmd"
        /\ wd \in DOMAIN files
        /\ Sent(id, step.p, atOnce)
        /\ run' = Advance(id, 1)
        /\ UNCHANGED files
     \/ /\ step.pre = "populate"
        /\ wd \in DOMAIN files
        /\ files' = Put(files, wd, Entry(now, id, NoTask))
        /\ Sent(id, step.p, atOnce)
        /\ run' = Advance(id, 1)
     \/ /\ step.pre = "gradle"
        /\ wd \in DOMAIN files
        /\ files[wd].src # NoTask
        /\ files' = Put(files, wd, Entry(files[wd].mtime, files[wd].src, files[wd].src))
        /\ Sent(id, step.p, atOnce)
        /\ run' = Advance(id, 1)
     \/ /\ step.pre = "export"
        /\ IF wd \in DOMAIN files /\ files[wd].apk # NoTask
           THEN /\ files' = Exported(type, wd, apk)
                /\ Sent(id, step.p, atOnce)
                /\ run' = Returned(id, BuilderSuccess(apk))
           ELSE /\ run' = Returned(id, BuilderFailure("APK build failed - output file not found"))
                /\ NothingStored /\ UNCHANGED files
  /\ UNCHANGED <<now, concurrency, wait, rm, poll, sweep, hist, gen, cleanup, stat, store, loops>>

\* a step of the Builder, its progress write applied at once
BuilderStep(id) == Builder(id, TRUE)

\* a step of the Builder, its progress write sent and not yet applied
BuilderStepSending(id) == Builder(id, FALSE)

\* mutation of NextApplied: the newest write in flight is applied first
NewestApplied(q) == Len(q)

\* the connection sends its commands in the order of the calls and Redis runs
\* them in that order: the oldest write in flight is applied next
NextApplied(q) == 1

\* await job.updateProgress({ message, percent: percent ?? 0 }) takes effect
updateProgress ==
  /\ sink.q # <<>>
  /\ LET i == NextApplied(sink.q)
         w == sink.q[i]
     IN  /\ jobs' = IF jobs[w.id] = NoJob THEN jobs ELSE Emit(w.id, w.percent)
         /\ sink' = [sink EXCEPT !.q = SubSeq(@, 1, i - 1) \o SubSeq(@, i + 1, Len(@)),
                                 !.stored[w.id] = w.n]
  /\ UNCHANGED <<now, concurrency, wait, run, files, rm, poll, sweep, hist, gen, cleanup, stat, store, loops>>

(***************************************************************************)
(* Progress heartbeat (CHANGELOG: periodic progress updates for long-      *)
(* running tasks), as the specification describes it.                      *)
(***************************************************************************)
RECURSIVE MilestoneFrom(_, _)
\* the percent of the first call at or after position i that always happens
\* and carries a percent; 100 past the end of the script
MilestoneFrom(script, i) ==
  IF i > Len(script) THEN 100
  ELSE IF ~script[i].opt /\ script[i].p # NoPercent THEN script[i].p
  ELSE MilestoneFrom(script, i + 1)

\* the next expected milestone of the run of `id`
NextMilestone(id) == MilestoneFrom(Script(jobs[id].data.type), run[id].pc)

\* the intermediate values a heartbeat may synthesize: strictly between the
\* last reported value and the next milestone
Synthetic(last, next) == {v \in {(last + next) \div 2, next - 1} : last < v /\ v < next}

\* next = max(lastReported, synthetic)
Ratchet(lastReported, synthetic) ==
  IF synthetic > lastReported THEN synthetic ELSE lastReported

\* the Builder of `id` has reported nothing for a while: the pool writes a
\* synthesized value through the progress sink
Heartbeat(id) ==
  /\ run[id] # NotRunning
  /\ run[id].res = NoResult
  /\ jobs[id] # NoJob
  /\ jobs[id].progress # NoProgress
  /\ \E v \in Synthetic(jobs[id].progress.percent, NextMilestone(id)) :
       jobs' = Emit(id, Ratchet(jobs[id].progress.percent, v))
  /\ UNCHANGED <<now, concurrency, wait, run, files, rm, poll, sweep, hist, gen, cleanup, stat, store, loops, sink>>

\* mutation of StateOnReturn: a build that failed goes back to the wait state
StateRequeuedOnFailure(result) == IF result.success THEN "completed" ELSE "waiting"

\* mutation of StateOnReturn: a build that failed moves the job to "failed"
StateFailedOnFailure(result) == IF result.success THEN "completed" ELSE "failed"

\* processBuildJob returns the builder's result ({ ...result, duration });
\* its finally block removes the task's -project.zip (CLEANUP_UPLOADS_ON_COMPLETE
\* is on unless the environment says 'false'); BullMQ then stores the returned
\* value and moves the job to "completed"
StateOnReturn(result) == "completed"

\* mutation of AfterFinally: the finally block also runs a cleanup pass
AfterFinallyAndPass(fs, id, type) ==
  LET kept == IF type = "zip" THEN Del(fs, {ProjectZipPath(id)}) ELSE fs
  IN  Del(kept, {q \in DOMAIN kept : now - kept[q].mtime > FILE_RETENTION_HOURS})

\* the finally block of processBuildJob removes the task's -project.zip
AfterFinally(fs, id, type) ==
  IF type = "zip" THEN Del(fs, {ProjectZipPath(id)}) ELSE fs

\* removeOnComplete: { age: 3600 * 24, count: 1000 }, in hours of the clock
removeOnCompleteAge == 24

\* mutation of KeepJobs: completed jobs are dropped once the retention window
\* of the files is over
KeepJobsByRetention(js) ==
  [o \in TaskIds |->
     IF js[o].state = "completed" /\ now - js[o].finishedOn > FILE_RETENTION_HOURS
     THEN NoJob
     ELSE js[o]]

\* when a job completes BullMQ drops the completed jobs that are older than
\* removeOnComplete.age (the count of 1000 is beyond the jobs of a run here;
\* removeOnFail never applies, no job ends in "failed")
KeepJobs(js) ==
  [o \in TaskIds |->
     IF js[o].state = "completed" /\ now - js[o].finishedOn > removeOnCompleteAge
     THEN NoJob
     ELSE js[o]]

FinishJob(id) ==
  /\ run[id] # NotRunning
  /\ jobs[id] # NoJob
  /\ run[id].res # NoResult
  /\ jobs' = KeepJobs([jobs EXCEPT ![id].state = StateOnReturn(run[id].res),
                                   ![id].returnvalue = run[id].res,
                                   ![id].finishedOn = now])
  /\ run' = [run EXCEPT ![id] = NotRunning]
  /\ files' = AfterFinally(files, id, jobs[id].data.type)
  /\ UNCHANGED <<now, concurrency, wait, rm, poll, sweep, hist, gen, cleanup, stat, store, loops, sink>>

(***************************************************************************)
(* Cancellation: queue.ts removeJob, one step per await.                   *)
(***************************************************************************)
\* between calls `rm` keeps the state the last call read and what it returned
RmIdle(state, result) == [pc |-> "idle", id |-> NoTask, state |-> state, result |-> result]

\* mutation of RefusesRemoval: the state check is gone
RefusesNothing(state) == FALSE

\* if (state === 'active') return false
RefusesRemoval(state) == state = "active"

\* const job = await getJob(...); if (!job) return false
RemoveGetJob(id) ==
  /\ rm.pc = "idle"
  /\ rm' = IF jobs[id] = NoJob
           THEN RmIdle("none", "false")
           ELSE [pc |-> "getState", id |-> id, state |-> "none", result |-> "none"]
  /\ UNCHANGED <<now, concurrency, jobs, wait, run, files, poll, sweep, hist, gen, cleanup, stat, store, loops, sink>>

\* const state = await job.getState()
RemoveGetState ==
  /\ rm.pc = "getState"
  /\ LET st == IF jobs[rm.id] = NoJob THEN "unknown" ELSE jobs[rm.id].state IN
       rm' = IF RefusesRemoval(st)
             THEN RmIdle(st, "false")
             ELSE [pc |-> "remove", id |-> rm.id, state |-> st, result |-> "none"]
  /\ UNCHANGED <<now, concurrency, jobs, wait, run, files, poll, sweep, hist, gen, cleanup, stat, store, loops, sink>>

\* mutation of Unlisted: the record is deleted but its id stays in the list
StillListed(w, id) == w

\* job.remove() takes the id out of the list it is in together with the job's record
Unlisted(w, id) == Without(w, id)

\* await job.remove(); return true  -- job.remove() throws when a worker
\* holds the job
RemoveDelete ==
  /\ rm.pc = "remove"
  /\ IF jobs[rm.id].state = "active"
     THEN /\ rm' = RmIdle(rm.state, "threw")
          /\ UNCHANGED <<jobs, wait, hist>>
     ELSE /\ rm' = RmIdle(rm.state, "true")
          /\ jobs' = [jobs EXCEPT ![rm.id] = NoJob]
          /\ wait' = Unlisted(wait, rm.id)
          /\ hist' = IF jobs[rm.id] # NoJob THEN Bump(rm.id, "removed") ELSE hist
  /\ UNCHANGED <<now, concurrency, run, files, poll, sweep, gen, cleanup, stat, store, loops, sink>>

(***************************************************************************)
(* Status: queue.ts getJobStatus, as a poller calls it.                    *)
(***************************************************************************)
PercentOf(job) == IF job.progress = NoProgress THEN NoPercent ELSE job.progress.percent

\* mutation of getJobStatus: the completed case leaves the result out
getJobStatusNoResult(id) ==
  IF jobs[id] = NoJob THEN [status |-> "not_found", percent |-> NoPercent, result |-> NoResult]
  ELSE CASE jobs[id].state \in {"completed", "failed", "active"} ->
              [status |-> jobs[id].state, percent |-> PercentOf(jobs[id]), result |-> NoResult]
         [] OTHER ->
              [status |-> "pending", percent |-> NoPercent, result |-> NoResult]

getJobStatus(id) ==
  IF jobs[id] = NoJob THEN [status |-> "not_found", percent |-> NoPercent, result |-> NoResult]
  ELSE CASE jobs[id].state = "completed" ->
              [status |-> "completed", percent |-> PercentOf(jobs[id]), result |-> jobs[id].returnvalue]
         [] jobs[id].state = "failed" ->
              [status |-> "failed", percent |-> PercentOf(jobs[id]), result |-> NoResult]
         [] jobs[id].state = "active" ->
              [status |-> "active", percent |-> PercentOf(jobs[id]), result |-> NoResult]
         [] OTHER ->
              [status |-> "pending", percent |-> NoPercent, result |-> NoResult]

\* null: the task is not Pending
NoPosition == [position |-> 0, total |-> 0]

RECURSIVE IndexOf(_, _)
\* 1-based index of id in seq, 0 when it is not there
IndexOf(seq, id) ==
  IF id \notin {seq[i] : i \in 1..Len(seq)} THEN 0
  ELSE IF Head(seq) = id THEN 1
  ELSE 1 + IndexOf(Tail(seq), id)

\* the status route's position query: the rank of the job in the queue's
\* list of waiting jobs and the length of that list
peekPosition(id) ==
  IF jobs[id].state = "waiting"
  THEN [position |-> IndexOf(wait, id), total |-> Len(wait)]
  ELSE NoPosition

\* null: the task has not finished
NoExpiry == -1

\* expiresAt = finishedAt + retentionWindow, set once the task is terminal
expiresAt(id) ==
  IF jobs[id].state \in {"completed", "failed"}
  THEN jobs[id].finishedOn + FILE_RETENTION_HOURS
  ELSE NoExpiry

\* the status route's answer: getJobStatus with the queue position and expiresAt
queryStatus(id) ==
  [ status    |-> getJobStatus(id).status,
    percent   |-> getJobStatus(id).percent,
    result    |-> getJobStatus(id).result,
    position  |-> peekPosition(id),
    expiresAt |-> expiresAt(id) ]

\* the poller follows one task; it keeps the status and percent of its last answer
Poll(id) ==
  /\ poll.id \in {NoTask, id}
  /\ jobs[id] # NoJob
  /\ poll' = [id |-> id, seq |-> jobs[id].seq,
              status |-> getJobStatus(id).status, percent |-> getJobStatus(id).percent]
  /\ UNCHANGED <<now, concurrency, jobs, wait, run, files, rm, sweep, hist, gen, cleanup, stat, store, loops, sink>>

\* the switch of getJobStatus: the state is the one job.getState() has just
\* read, the progress, returnvalue and failedReason are those of the job
\* object that getJob fetched before
StatusFor(job, state) ==
  CASE state = "completed" ->
         [status |-> "completed", percent |-> PercentOf(job),
          result |-> job.returnvalue, error |-> ""]
    [] state = "failed" ->
         [status |-> "failed", percent |-> PercentOf(job),
          result |-> NoResult, error |-> job.failedReason]
    [] state = "active" ->
         [status |-> "active", percent |-> PercentOf(job), result |-> NoResult, error |-> ""]
    [] state = "waiting" ->
         [status |-> "pending", percent |-> NoPercent, result |-> NoResult, error |-> ""]
    [] OTHER ->
         [status |-> "not_found", percent |-> NoPercent, result |-> NoResult, error |-> ""]

\* const job = await getJob(redisUrl, taskId); if (!job) return not_found
StatusGetJob(id) ==
  /\ stat.pc = "idle"
  /\ stat' = IF jobs[id] = NoJob
             THEN [pc |-> "idle", id |-> id, job |-> NoJob,
                   out |-> StatusFor(NoJob, "unknown")]
             ELSE [pc |-> "getState", id |-> id, job |-> jobs[id], out |-> NoAnswer]
  /\ UNCHANGED <<now, concurrency, jobs, wait, run, files, rm, poll, sweep, hist, gen, cleanup, store, loops, sink>>

\* const state = await job.getState(); switch (state) ...
StatusGetState ==
  /\ stat.pc = "getState"
  /\ LET state == IF jobs[stat.id] = NoJob THEN "unknown" ELSE jobs[stat.id].state IN
       stat' = [pc |-> "idle", id |-> stat.id, job |-> NoJob,
                out |-> StatusFor(stat.job, state)]
  /\ UNCHANGED <<now, concurrency, jobs, wait, run, files, rm, poll, sweep, hist, gen, cleanup, store, loops, sink>>

(***************************************************************************)
(* Frontend: hooks/useBuildStore.ts, the build store and its poll loop.    *)
(***************************************************************************)
\* startBuild once the upload has been answered with the task id: the two
\* set() calls of the handler (status 'uploading', then taskId, status
\* 'building', progress 5), then pollBuildStatus(taskId, set, get) starts
StartBuild(id) ==
  /\ hist[id].adds > 0
  /\ loops[id] = "none"
  /\ store' = [store EXCEPT !.taskId = id, !.status = "building", !.progress = 5,
                            !.error = "", !.by = Writer("start", id)]
  /\ loops' = [loops EXCEPT ![id] = "running"]
  /\ UNCHANGED <<now, concurrency, jobs, wait, run, files, rm, poll, sweep, hist, gen, cleanup, stat, sink>>

\* restoreFromTaskId(taskId): set({ status: 'building', progress: 0, taskId,
\* error: null, ... }), then pollBuildStatus(taskId, set, get) starts
restoreFromTaskId(id) ==
  /\ loops[id] # "running"
  /\ store' = [store EXCEPT !.taskId = id, !.status = "building", !.progress = 0,
                            !.error = "", !.by = Writer("restore", id)]
  /\ loops' = [loops EXCEPT ![id] = "running"]
  /\ UNCHANGED <<now, concurrency, jobs, wait, run, files, rm, poll, sweep, hist, gen, cleanup, stat, sink>>

\* reset(): every field back to its initial value; nothing stops a loop
reset ==
  /\ store' = [IdleStore EXCEPT !.by = Writer("reset", NoTask)]
  /\ UNCHANGED <<now, concurrency, jobs, wait, run, files, rm, poll, sweep, hist, gen, cleanup, stat, loops, sink>>

\* Math.max(currentProgress, serverProgress), at least 10 while building
NextProgress(current, server) ==
  LET reported == IF server = NoPercent THEN 0 ELSE server
      highest  == IF current > reported THEN current ELSE reported
  IN  IF highest < 10 THEN 10 ELSE highest

\* one round of the while loop of pollBuildStatus(taskId, set, get): fetch the
\* status of taskId and set() the store from the answer; a 404, 'completed'
\* and 'failed' end the loop
pollBuildStatus(id) ==
  /\ loops[id] = "running"
  /\ LET data == getJobStatus(id)
         by   == Writer("loop", id)
     IN  CASE data.status = "not_found" ->
                /\ store' = [store EXCEPT !.status = "error",
                                          !.error = "TASK NOT FOUND OR EXPIRED", !.by = by]
                /\ loops' = [loops EXCEPT ![id] = "done"]
           [] data.status = "completed" ->
                /\ store' = [store EXCEPT !.status = "completed", !.progress = 100,
                                          !.downloadUrl = id, !.by = by]
                /\ loops' = [loops EXCEPT ![id] = "done"]
           [] data.status = "failed" ->
                /\ store' = [store EXCEPT !.status = "error", !.error = "BUILD FAILED",
                                          !.by = by]
                /\ loops' = [loops EXCEPT ![id] = "done"]
           [] data.status = "pending" ->
                /\ store' = [store EXCEPT !.status = "queued", !.progress = 5, !.by = by]
                /\ UNCHANGED loops
           [] OTHER ->
                /\ store' = [store EXCEPT !.status = "building",
                                          !.progress = NextProgress(@, data.percent),
                                          !.by = by]
                /\ UNCHANGED loops
  /\ UNCHANGED <<now, concurrency, jobs, wait, run, files, rm, poll, sweep, hist, gen, cleanup, stat, sink>>

\* the loop ends after maxAttempts rounds (200, 3 s apart) without a terminal
\* answer: set({ status: 'error', error: 'OPERATION TIMED OUT', ... })
PollTimedOut(id) ==
  /\ loops[id] = "running"
  /\ getJobStatus(id).status \in {"pending", "active"}
  /\ store' = [store EXCEPT !.status = "error", !.error = "OPERATION TIMED OUT",
                            !.by = Writer("loop", id)]
  /\ loops' = [loops EXCEPT ![id] = "done"]
  /\ UNCHANGED <<now, concurrency, jobs, wait, run, files, rm, poll, sweep, hist, gen, cleanup, stat, sink>>

(***************************************************************************)
(* Retention sweeper: index.ts cleanupOldBuilds.                           *)
(***************************************************************************)
\* mutation of IsExpired: the age is compared with the window in minutes
IsExpiredLate(entry) == now - entry.mtime > FILE_RETENTION_HOURS + 60

\* age = now - stats.mtimeMs; if (age > retentionMs)
IsExpired(entry) == now - entry.mtime > FILE_RETENTION_HOURS

\* one pass over the entries; stat or unlink of the entries in `failing`
\* throws, which the pass swallows per entry
\* what a pass may fail on: nothing, one entry whose stat or unlink throws,
\* or every entry (readdir throws and the pass ends)
FailingSets ==
  LET expired == {q \in DOMAIN files : IsExpired(files[q])}
  IN  {{}, expired} \cup {{q} : q \in expired}

\* mutation of Removed: the first entry that throws ends the pass
RemovedUnlessThrown(failing) ==
  IF failing = {} THEN {q \in DOMAIN files : IsExpired(files[q])} ELSE {}

\* the entries a pass deletes: the try/catch inside the loop skips an entry
\* whose stat or unlink throws and goes on with the next
Removed(failing) == {q \in DOMAIN files : IsExpired(files[q]) /\ q \notin failing}

Sweep(failing) ==
  /\ files' = Del(files, Removed(failing))
  /\ sweep' = [ran |-> TRUE, failed |-> failing]
  /\ UNCHANGED <<now, concurrency, jobs, wait, run, rm, poll, hist, gen, cleanup, stat, store, loops, sink>>

Tick ==
  /\ now < MaxTime
  /\ now' = now + 1
  /\ sweep' = NoSweep
  /\ UNCHANGED <<concurrency, jobs, wait, run, files, rm, poll, hist, gen, cleanup, stat, store, loops, sink>>

\* the queue and the worker
Next ==
  \/ \E id \in TwoIds, type \in BuildTypes, appName \in AppNames : Submit(id, type, appName)
  \/ Dequeue
  \/ \E id \in TaskIds : BuilderStep(id)
  \/ \E id \in TaskIds : FinishJob(id)

Spec == Init /\ [][Next]_vars

\* the queue and the worker with callers that choose the task id and call
\* removeJob
NextCancel ==
  \/ \E id \in TwoIds, type \in BuildTypes : addBuildJob(id, type, <<"A">>)
  \/ Dequeue
  \/ \E id \in TaskIds : BuilderStep(id)
  \/ \E id \in TaskIds : FinishJob(id)
  \/ \E id \in TaskIds : RemoveGetJob(id)
  \/ RemoveGetState
  \/ RemoveDelete

SpecCancel == Init /\ [][NextCancel]_vars

\* the queue and the worker under a running clock, with the retention sweeper
NextTime ==
  \/ \E id \in TwoIds, type \in BuildTypes : Submit(id, type, <<"A">>)
  \/ Dequeue
  \/ \E id \in TaskIds : BuilderStep(id)
  \/ \E id \in TaskIds : FinishJob(id)
  \/ \E failing \in FailingSets : Sweep(failing)
  \/ Tick

SpecTime == Init /\ [][NextTime]_vars

\* the queue and the worker with a status poller
NextPoll ==
  \/ \E id \in TwoIds, type \in BuildTypes, appName \in AppNames : Submit(id, type, appName)
  \/ Dequeue
  \/ \E id \in TaskIds : BuilderStep(id)
  \/ \E id \in TaskIds : FinishJob(id)
  \/ \E id \in TaskIds : Poll(id)

SpecPoll == Init /\ [][NextPoll]_vars

\* the queue and the worker, tasks of one application name
NextTask ==
  \/ \E id \in TwoIds, type \in BuildTypes : Submit(id, type, <<"A">>)
  \/ Dequeue
  \/ \E id \in TaskIds : BuilderStep(id)
  \/ \E id \in TaskIds : FinishJob(id)

\* the queue and the worker with callers of getJobStatus, one call at a time
NextStatus ==
  \/ \E id \in TwoIds, type \in BuildTypes : Submit(id, type, <<"A">>)
  \/ Dequeue
  \/ \E id \in TaskIds : BuilderStep(id)
  \/ \E id \in TaskIds : FinishJob(id)
  \/ \E id \in TaskIds : StatusGetJob(id)
  \/ StatusGetState

SpecStatus == Init /\ [][NextStatus]_vars

\* the queue and the worker with one browser page: its build store and the
\* poll loops it has started
NextStore ==
  \/ \E type \in BuildTypes : Submit("t1", type, <<"A">>)
  \/ Dequeue
  \/ \E id \in TaskIds : BuilderStep(id)
  \/ \E id \in TaskIds : FinishJob(id)
  \/ \E id \in TwoIds : StartBuild(id)
  \/ \E id \in TwoIds : restoreFromTaskId(id)
  \/ reset
  \/ \E id \in TwoIds : pollBuildStatus(id)
  \/ \E id \in TwoIds : PollTimedOut(id)

SpecStore == Init /\ [][NextStore]_vars

\* the queue and the worker as scheduled: the BullMQ worker takes the next
\* job whenever a slot is free and one waits, a Builder that has started goes
\* on to its return (every Builder invocation terminates), and a processor
\* that has returned is completed; submissions are under no obligation
Fairness ==
  /\ WF_vars(Dequeue)
  /\ \A id \in TaskIds : WF_vars(BuilderStep(id))
  /\ \A id \in TaskIds : WF_vars(FinishJob(id))

SpecLive == Init /\ [][NextTask]_vars /\ Fairness

\* the processor has returned: BullMQ completes the job on the connection
\* that carries its progress writes, so after the writes still in flight
FinishJobAfterWrites(id) ==
  /\ \A i \in 1..Len(sink.q) : sink.q[i].id # id
  /\ FinishJob(id)

\* the queue and the worker with the progress writes as they are issued: sent
\* by the Builder without waiting, applied by Redis later
NextWrites ==
  \/ \E id \in TwoIds, type \in BuildTypes : Submit(id, type, <<"A">>)
  \/ Dequeue
  \/ \E id \in TaskIds : BuilderStepSending(id)
  \/ updateProgress
  \/ \E id \in TaskIds : FinishJobAfterWrites(id)

SpecWrites == Init /\ [][NextWrites]_vars

\* the queue and the worker with the progress heartbeat
NextHeartbeat ==
  \/ \E id \in TwoIds, type \in BuildTypes : Submit(id, type, <<"A">>)
  \/ Dequeue
  \/ \E id \in TaskIds : BuilderStep(id)
  \/ \E id \in TaskIds : FinishJob(id)
  \/ \E id \in TaskIds : Heartbeat(id)

SpecHeartbeat == Init /\ [][NextHeartbeat]_vars

\* setInterval(cleanupOldBuilds, FILE_CLEANUP_INTERVAL_MINUTES * 60 * 1000)
FILE_CLEANUP_INTERVAL_MINUTES == 30

\* the intervals of the cleanup schedule that a run covers
MaxIntervals == 2

\* the clock (hours) after n intervals
ClockAfter(n) == (n * FILE_CLEANUP_INTERVAL_MINUTES) \div 60

\* an interval ends and the timer calls cleanupOldBuilds
IntervalTick(failing) ==
  /\ cleanup.enabled
  /\ cleanup.elapsed < MaxIntervals
  /\ cleanup' = [cleanup EXCEPT !.elapsed = @ + 1, !.passes = @ + 1]
  /\ now' = ClockAfter(cleanup.elapsed + 1)
  /\ files' = Del(files, {q \in DOMAIN files :
                  now' - files[q].mtime > FILE_RETENTION_HOURS /\ q \notin failing})
  /\ sweep' = [ran |-> TRUE, failed |-> failing]
  /\ UNCHANGED <<concurrency, jobs, wait, run, rm, poll, hist, gen, stat, store, loops, sink>>

\* an interval ends in a worker without the cleanup schedule
IntervalPasses ==
  /\ ~cleanup.enabled
  /\ cleanup.elapsed < MaxIntervals
  /\ cleanup' = [cleanup EXCEPT !.elapsed = @ + 1]
  /\ now' = ClockAfter(cleanup.elapsed + 1)
  /\ sweep' = NoSweep
  /\ UNCHANGED <<concurrency, jobs, wait, run, files, rm, poll, hist, gen, stat, store, loops, sink>>

InitSchedule ==
  /\ now = 0
  /\ concurrency \in Concurrencies
  /\ jobs = [id \in TaskIds |-> NoJob]
  /\ wait = <<>>
  /\ run = [id \in TaskIds |-> NotRunning]
  /\ files = <<>>
  /\ rm = [pc |-> "idle", id |-> NoTask, state |-> "none", result |-> "none"]
  /\ poll = [id |-> NoTask, seq |-> 0, status |-> "none", percent |-> NoPercent]
  /\ sweep = NoSweep
  /\ hist = [id \in TaskIds |->
               [adds |-> 0, created |-> 0, execs |-> 0, removed |-> 0, behind |-> 0]]
  /\ gen = NoCall
  /\ cleanup \in {Scheduled(enabled) : enabled \in BOOLEAN}
  /\ stat = NoStatusCall
  /\ store = IdleStore
  /\ loops = NoLoops
  /\ sink = NoWrites

\* the queue and the worker with the cleanup schedule of index.ts
NextSchedule ==
  \/ \E id \in TwoIds, type \in BuildTypes : Submit(id, type, <<"A">>)
  \/ Dequeue
  \/ \E id \in TaskIds : BuilderStep(id)
  \/ \E id \in TaskIds : FinishJob(id)
  \/ \E failing \in {{}, DOMAIN files} \cup {{q} : q \in DOMAIN files} :
       IntervalTick(failing)
  \/ IntervalPasses

SpecSchedule == InitSchedule /\ [][NextSchedule]_vars

\* the queue and the worker with three submitted tasks
NextQueue ==
  \/ \E id \in TaskIds, type \in BuildTypes : Submit(id, type, <<"A">>)
  \/ Dequeue
  \/ \E id \in TaskIds : BuilderStep(id)
  \/ \E id \in TaskIds : FinishJob(id)

SpecQueue == Init /\ [][NextQueue]_vars

RECURSIVE Repeat(_, _)
Repeat(c, n) == IF n = 0 THEN <<>> ELSE <<c>> \o Repeat(c, n - 1)

RECURSIVE Heads(_)
\* the sequences over NameChars of length at most n
Heads(n) ==
  IF n = 0 THEN {<<>>}
  ELSE Heads(n - 1) \cup {Append(h, c) : h \in Heads(n - 1), c \in NameChars}

\* the names generateAppId is called with: a head of any characters, then a
\* run of one letter or digit that takes the name up to and past the maximum
Names ==
  {h \o Repeat(c, n) : h \in Heads(MaxNameLen), c \in PadChars, n \in PadLens}

InitAppId ==
  /\ now = 0
  /\ concurrency \in Concurrencies
  /\ jobs = [id \in TaskIds |-> NoJob]
  /\ wait = <<>>
  /\ run = [id \in TaskIds |-> NotRunning]
  /\ files = <<>>
  /\ rm = [pc |-> "idle", id |-> NoTask, state |-> "none", result |-> "none"]
  /\ poll = [id |-> NoTask, seq |-> 0, status |-> "none", percent |-> NoPercent]
  /\ sweep = NoSweep
  /\ hist = [id \in TaskIds |->
               [adds |-> 0, created |-> 0, execs |-> 0, removed |-> 0, behind |-> 0]]
  /\ gen \in {[appName |-> n, appId |-> <<>>, done |-> FALSE, throws |-> FALSE] : n \in Names}
  /\ cleanup = Scheduled(TRUE)
  /\ stat = NoStatusCall
  /\ store = IdleStore
  /\ loops = NoLoops
  /\ sink = NoWrites

\* const appId = generateAppId(appName)
CallGenerateAppId(throws) ==
  /\ ~gen.done
  /\ gen' = [appName |-> gen.appName, appId |-> generateAppId(gen.appName, throws),
             done |-> TRUE, throws |-> throws]
  /\ UNCHANGED <<now, concurrency, jobs, wait, run, files, rm, poll, sweep, hist, cleanup, stat, store, loops, sink>>

NextAppId == \E throws \in BOOLEAN : CallGenerateAppId(throws)

SpecAppId == InitAppId /\ [][NextAppId]_vars

(***************************************************************************)
(* Claims.                                                                 *)
(***************************************************************************)
Occurrences(seq, id) == Cardinality({i \in 1..Len(seq) : seq[i] = id})

\* C1 as stated: however often an id is submitted, one record is created
\* for it and the Builder runs at most once for it.
C1_OneRecordOneExecution ==
  \A id \in TaskIds : hist[id].created <= 1 /\ hist[id].execs <= 1

\* a submit of an id whose record is stored leaves the record, the wait
\* list and the executions as they are
AddOfStoredIdChangesNothing ==
  \A id \in TaskIds :
    (hist'[id].adds > hist[id].adds /\ jobs[id] # NoJob)
      => /\ jobs' = jobs
         /\ wait' = wait
         /\ run' = run
         /\ hist'[id].created = hist[id].created
         /\ hist'[id].execs = hist[id].execs

\* C1 (amended): while the record of an id is stored, a further submit of
\* that id returns with the record unchanged; an id has at most one stored
\* record and one wait-list entry, a record is created again only after the
\* earlier one was removed, and the Builder runs at most once per record.
C1_IdempotentWhileStored ==
  /\ [](\A id \in TaskIds :
          /\ hist[id].created <= hist[id].removed + 1
          /\ hist[id].execs <= hist[id].created
          /\ Occurrences(wait, id) <= 1
          /\ (jobs[id] # NoJob => hist[id].created = hist[id].removed + 1))
  /\ [][AddOfStoredIdChangesNothing]_vars

\* an id submitted twice, its one record run once to the end
C1_Witness ==
  \E id \in TaskIds :
    /\ hist[id].adds = 2
    /\ hist[id].created = 1
    /\ hist[id].execs = 1
    /\ jobs[id].state = "completed"

\* C2: at every moment the number of Active tasks, and of running
\* processors, is at most the configured concurrency.
C2_ActiveAtMostConcurrency ==
  /\ Cardinality(Active) <= concurrency
  /\ Cardinality({id \in TaskIds : run[id] # NotRunning}) <= concurrency

\* every slot is taken and a task waits for one
C2_Witness ==
  /\ Cardinality(Active) = concurrency
  /\ wait # <<>>

Terminal == {"completed", "failed"}

\* C3: as long as a task's record is stored its state only moves
\* waiting -> active -> completed | failed; a state that was left is not
\* entered again and a terminal state is not left.
C3_StateMonotone ==
  [][\A id \in TaskIds :
       (jobs[id] # NoJob /\ jobs'[id] # NoJob)
         => \/ jobs'[id].state = jobs[id].state
            \/ jobs[id].state = "waiting" /\ jobs'[id].state = "active"
            \/ jobs[id].state = "active" /\ jobs'[id].state \in Terminal]_vars

\* a task whose build succeeded, in its terminal state
C3_Witness ==
  \E id \in TaskIds :
    /\ jobs[id].state \in Terminal
    /\ jobs[id].returnvalue # NoResult
    /\ jobs[id].returnvalue.success

FailureStoredAsCompleted ==
  \A id \in TaskIds :
    (run[id].res # NoResult /\ ~run[id].res.success /\ run'[id] = NotRunning)
      => /\ jobs'[id].state = "completed"
         /\ jobs'[id].returnvalue = run[id].res
         /\ run[id].res.error # ""

C5_CancelOfActiveRefused ==
  [][/\ (rm.pc = "getState" /\ rm' # rm /\ jobs[rm.id].state = "active")
          => /\ rm' = RmIdle("active", "false")
             /\ UNCHANGED <<jobs, wait, run, files, hist>>
     /\ rm' # rm
          => \A id \in Active : jobs'[id] = jobs[id] /\ run'[id] = run[id]]_vars

\* a removeJob call has read "active" and returned false, the task still Active
C5_Witness ==
  /\ rm.pc = "idle"
  /\ rm.state = "active"
  /\ rm.result = "false"
  /\ Active # {}

\* the step in which the Builder of `id` returns success
ExportsNow(id) ==
  /\ run[id].res = NoResult
  /\ run'[id].res # NoResult
  /\ run'[id].res.success

\* C9 as stated: two tasks of one application name that are Active at the
\* same time write distinct artifact paths, and neither overwrites the
\* artifact of the other.
C9_SameNameArtifactsDistinct ==
  [][\A a, b \in TaskIds :
       ( /\ a # b
         /\ {a, b} \subseteq Active
         /\ jobs[a].data.appName = jobs[b].data.appName
         /\ run[a].res # NoResult
         /\ run[a].res.success
         /\ ExportsNow(b) )
       => /\ run'[b].res.apkPath # run[a].res.apkPath
          /\ files'[run[a].res.apkPath] = files[run[a].res.apkPath]]_vars

\* C6 as stated: the percent values that repeated polls of one task return
\* never decrease.
C6_PolledPercentNonDecreasing ==
  [][( /\ poll'.id = poll.id
       /\ poll'.seq = poll.seq
       /\ poll.percent # NoPercent
       /\ poll'.percent # NoPercent )
       => poll'.percent >= poll.percent]_vars

\* a step of the cleanup pass: the clock, the queue and the processors stand
\* still while entries go or the pass is recorded
SweepStep ==
  /\ sweep' # sweep \/ files' # files
  /\ UNCHANGED <<now, jobs, run, hist>>

\* the entries under BUILDS_DIR named after the task
EntriesOf(id) == {ProjectZipPath(id)} \cap DOMAIN files

\* C7 as stated: a cleanup pass deletes no entry that belongs to a task
\* whose state is Active, whatever the entry's age.
C7_SweepSparesActiveTasks ==
  [][SweepStep => \A id \in Active : EntriesOf(id) \subseteq DOMAIN files']_vars

\* the file at the task's artifact path, written before the task finished
ArtifactPresent(id) ==
  /\ jobs[id].returnvalue.apkPath \in DOMAIN files
  /\ files[jobs[id].returnvalue.apkPath].mtime <= jobs[id].finishedOn

\* a finished task with an artifact, its retention window over
ArtifactDue(id) ==
  /\ jobs[id].state \in Terminal
  /\ jobs[id].returnvalue.success
  /\ now > jobs[id].finishedOn + FILE_RETENTION_HOURS

C10_DequeuesOldest ==
  [][\A id \in TaskIds :
       (jobs[id].state = "waiting" /\ jobs'[id].state = "active")
         => \A o \in Waiting \ {id} :
              /\ jobs[id].timestamp <= jobs[o].timestamp
              /\ jobs[id].seq < jobs[o].seq]_vars

\* a task was taken while a task added at a later time was waiting behind it
C10_Witness ==
  \E a, b \in TaskIds :
    /\ jobs[a].state = "active"
    /\ hist[a].behind = 1
    /\ jobs[b].state = "waiting"
    /\ jobs[a].timestamp < jobs[b].timestamp

\* the Pending tasks added before `id`
AddedBefore(id) == {o \in Waiting : jobs[o].seq < jobs[id].seq}

InOrder(a, b, c) ==
  /\ jobs[a] # NoJob /\ jobs[b] # NoJob /\ jobs[c] # NoJob
  /\ jobs[a].seq < jobs[b].seq
  /\ jobs[b].seq < jobs[c].seq

\* C12: with one worker slot and three tasks submitted in the order a, b, c:
\* while a is Active, b is at position 1 of 2 and c at 2 of 2; once a has
\* finished and b is Active, c is at position 1 of 1; no task is started
\* before one submitted earlier.
C12_ThreeTasksOneSlot ==
  \A a, b, c \in TaskIds :
    (concurrency = 1 /\ InOrder(a, b, c)) =>
      /\ jobs[a].state = "active" =>
           /\ peekPosition(b) = [position |-> 1, total |-> 2]
           /\ peekPosition(c) = [position |-> 2, total |-> 2]
      /\ (jobs[a].state \in Terminal /\ jobs[b].state = "active") =>
           peekPosition(c) = [position |-> 1, total |-> 1]
      /\ jobs[a].state = "waiting" => jobs[b].state = "waiting"
      /\ jobs[b].state = "waiting" => jobs[c].state = "waiting"

\* t1 has completed, t2 is Active and t3 waits at position 1 of 1
C12_Witness ==
  /\ concurrency = 1
  /\ InOrder("t1", "t2", "t3")
  /\ jobs["t1"].state = "completed"
  /\ jobs["t2"].state = "active"
  /\ hist["t2"].behind = 1
  /\ peekPosition("t3") = [position |-> 1, total |-> 1]

\* the processor of `id` has ended with a failure that FinishJob hands over
EndsInFailure(id) ==
  /\ run[id] # NotRunning
  /\ run[id].res # NoResult
  /\ ~run[id].res.success
  /\ run'[id] = NotRunning

\* C13: a build that throws leaves the Active state and releases its slot:
\* the job ends in a final state with the failure stored, the set of Active
\* jobs loses exactly this job, a waiting job then finds a free slot, the job
\* that is started is always the oldest waiting one, and an Active job always
\* has a processor with a step to take (no slot is stuck).
C13_FailureReleasesSlot ==
  /\ [](\A id \in Active :
          /\ run[id] # NotRunning
          /\ \/ run[id].res # NoResult
             \/ run[id].pc \in 1..Len(Script(jobs[id].data.type)))
  /\ [][\A id \in TaskIds :
          /\ EndsInFailure(id) =>
               /\ jobs[id].state = "active"
               /\ jobs'[id].state \in Terminal
               /\ ~jobs'[id].returnvalue.success
               /\ Active' = Active \ {id}
               /\ Cardinality(Active') < concurrency
               /\ wait' = wait
          /\ (jobs[id].state = "waiting" /\ jobs'[id].state = "active") =>
               /\ Cardinality(Active) < concurrency
               /\ \A o \in Waiting : jobs[id].seq <= jobs[o].seq
        ]_vars

\* one slot: t1 failed, t2, which waited behind it, runs and t3 still waits
C13_Witness ==
  /\ concurrency = 1
  /\ InOrder("t1", "t2", "t3")
  /\ jobs["t1"].state \in Terminal
  /\ ~jobs["t1"].returnvalue.success
  /\ jobs["t2"].state = "active"
  /\ jobs["t3"].state = "waiting"

\* the processor of `id` is executing
Executing(id) == run[id] # NotRunning

\* C14: at most one worker slot executes the Builder for a given id: an id
\* whose processor is executing is stored as Active and is not in the wait
\* list, the wait list holds no id twice, and a processor is started only
\* for an id that has none executing.
C14_OneExecutionPerIdAtATime ==
  /\ [](\A id \in TaskIds :
          /\ Occurrences(wait, id) <= 1
          /\ Executing(id) =>
               /\ jobs[id] # NoJob
               /\ jobs[id].state = "active"
               /\ Occurrences(wait, id) = 0)
  /\ [][\A id \in TaskIds :
          hist'[id].execs # hist[id].execs =>
            /\ ~Executing(id)
            /\ Executing(id)'
            /\ hist'[id].execs = hist[id].execs + 1
        ]_vars

\* an id that was removed after its first build and added again is executing
\* for the second time
C14_Witness ==
  \E id \in TaskIds :
    /\ hist[id].created = 2
    /\ hist[id].execs = 2
    /\ Executing(id)

\* the record stored under `id` is the same before and after the step
SameRecord(id) ==
  /\ jobs[id] # NoJob
  /\ jobs'[id] # NoJob
  /\ jobs'[id].seq = jobs[id].seq

RemovesPending(id) ==
  /\ rm.pc = "remove"
  /\ rm.id = id
  /\ jobs[id] # NoJob
  /\ jobs[id].state = "waiting"
  /\ rm'.result = "true"

\* C16: a Pending task for which remove(id) returned true is never dequeued
\* and its Builder is never invoked: the removal leaves neither a record nor
\* an entry of the wait list nor a processor, the removed record had no
\* processor run, an id without a record is never in the wait list, and a
\* processor is started only for a stored record in the wait state.
C16_RemovedPendingNeverRuns ==
  /\ [](\A id \in TaskIds :
          /\ jobs[id] = NoJob => (Occurrences(wait, id) = 0 /\ ~Executing(id))
          /\ (jobs[id] # NoJob /\ jobs[id].state = "waiting") =>
               (hist[id].execs < hist[id].created /\ ~Executing(id)))
  /\ [][\A id \in TaskIds :
          /\ RemovesPending(id) =>
               /\ jobs'[id] = NoJob
               /\ Occurrences(wait', id) = 0
               /\ hist'[id].execs = hist[id].execs
               /\ hist'[id].execs < hist'[id].created
          /\ hist'[id].execs # hist[id].execs =>
               /\ SameRecord(id)
               /\ jobs[id].state = "waiting"
        ]_vars

\* a task was removed while Pending and never ran, while the worker has
\* started another one
C16_Witness ==
  \E id, o \in TaskIds :
    /\ rm.result = "true"
    /\ rm.state = "waiting"
    /\ jobs[id] = NoJob
    /\ hist[id].removed = 1
    /\ hist[id].execs = 0
    /\ hist[o].execs = 1

\* the retention window of a finished task is over: now is past
\* expiresAt = finishedAt + retentionWindow
RecordDue(id) ==
  /\ jobs[id] # NoJob
  /\ jobs[id].state \in Terminal
  /\ now > jobs[id].finishedOn + FILE_RETENTION_HOURS

\* C17 as stated: once a cleanup pass has run after the expiresAt of a
\* Completed or Failed task, the task's record is deleted; and the record of
\* an Active task is never deleted.
C17_ExpiredRecordDeleted ==
  /\ [](sweep.ran => \A id \in TaskIds : ~RecordDue(id))
  /\ [][\A id \in Active : jobs'[id] # NoJob]_vars

\* C17 amended: the record of a Completed or Failed task is not deleted when
\* its expiresAt passes: it stays as it is while the task finished no longer
\* ago than removeOnComplete.age; and the record of an Active task is never
\* deleted.
C17_RecordKeptPastExpiry ==
  /\ [][\A id \in TaskIds :
          (/\ jobs[id] # NoJob
           /\ jobs[id].state \in Terminal
           /\ now' - jobs[id].finishedOn <= removeOnCompleteAge) =>
            jobs'[id] = jobs[id]
        ]_vars
  /\ [][\A id \in Active : jobs'[id] # NoJob]_vars

\* a cleanup pass has run after the expiresAt of a finished task and has
\* deleted its artifact; the record is still stored, while another task is
\* Active or has finished after it
C17_Witness ==
  \E id, o \in TaskIds :
    /\ RecordDue(id)
    /\ sweep.ran
    /\ jobs[id].returnvalue.success
    /\ jobs[id].returnvalue.apkPath \notin DOMAIN files
    /\ jobs[o] # NoJob
    /\ jobs[o].seq > jobs[id].seq
    /\ jobs[o].state \in {"active"} \cup Terminal

Suffix(appId) == SubSeq(appId, Len(PackagePrefix) + 1, Len(appId))

\* C19: for every name (the empty name, names that start with a digit, names
\* with characters outside ASCII, names of separators only) generateAppId
\* returns 'com.demo2apk.' followed by a suffix of 1 to 30 characters, all of
\* [a-z0-9], the first a letter.
C19_AppIdWellFormed ==
  gen.done =>
    /\ Len(gen.appId) > Len(PackagePrefix)
    /\ SubSeq(gen.appId, 1, Len(PackagePrefix)) = PackagePrefix
    /\ Len(Suffix(gen.appId)) \in 1..30
    /\ \A i \in 1..Len(Suffix(gen.appId)) : Suffix(gen.appId)[i] \in Letters \cup Digits
    /\ Suffix(gen.appId)[1] \in Letters

\* a name of more than 30 characters that starts with a digit and holds a
\* Chinese character: the id has the added 'a' and is cut to 30 characters
C19_Witness ==
  /\ gen.done
  /\ Len(gen.appName) > 30
  /\ gen.appName[1] = "7"
  /\ \E i \in 1..Len(gen.appName) : gen.appName[i] = "U+6211"
  /\ Len(Suffix(gen.appId)) = 30
  /\ Suffix(gen.appId)[1] = "a"
  /\ Suffix(gen.appId)[2] = "7"

\* the step takes the Active task `id` to a final state
Finishes(id) ==
  /\ jobs[id].state = "active"
  /\ jobs'[id] # NoJob
  /\ jobs'[id].state \in Terminal

C21_PassContinuesAfterEntryError ==
  [][(SweepStep /\ Cardinality(sweep'.failed) = 1) =>
       /\ \A q \in DOMAIN files :
            (IsExpired(files[q]) /\ q \notin sweep'.failed) => q \notin DOMAIN files'
       /\ \A q \in DOMAIN files :
            (~IsExpired(files[q]) \/ q \in sweep'.failed) =>
               (q \in DOMAIN files' /\ files'[q] = files[q])
    ]_vars

\* a pass in which one expired entry failed has run: that entry is still
\* stored, and the expired artifact of a finished task is gone
C21_Witness ==
  \E q \in DOMAIN files, id \in TaskIds :
    /\ sweep.ran
    /\ sweep.failed = {q}
    /\ IsExpired(files[q])
    /\ ArtifactDue(id)
    /\ jobs[id].returnvalue.apkPath # q
    /\ jobs[id].returnvalue.apkPath \notin DOMAIN files

\* the step in which the Builder of `id` fails (throws, or resolves with
\* success = false)
FailsNow(id) ==
  /\ run[id] # NotRunning
  /\ run[id].res = NoResult
  /\ run'[id].res # NoResult
  /\ ~run'[id].res.success

\* nothing of the task `o` changes in the step; a completed record older
\* than removeOnComplete.age may be dropped by the queue
Untouched(o) ==
  /\ run'[o] = run[o]
  /\ hist'[o] = hist[o]
  /\ \/ jobs'[o] = jobs[o]
     \/ /\ jobs[o].state = "completed"
        /\ now - jobs[o].finishedOn > removeOnCompleteAge

C27_RemoveJobAtomicWithDequeue ==
  [][(rm.pc = "remove" /\ rm'.pc = "idle") =>
       /\ rm'.result \in {"true", "false"}
       /\ rm'.result = "true" =>
            (jobs[rm.id].state # "active" /\ jobs'[rm.id] = NoJob)
       /\ rm'.result = "false" => UNCHANGED <<jobs, wait, run, files, hist>>
    ]_vars

\* C28 as stated: within one Builder run the stored percent never decreases
\* from one progressSink call to the next, the calls without a percent and
\* the calls of the helper steps included.
C28_StoredPercentNonDecreasing ==
  [][\A id \in TaskIds :
       ( /\ run[id] # NotRunning
         /\ run'[id] # NotRunning
         /\ jobs[id] # NoJob
         /\ jobs'[id] # NoJob
         /\ jobs[id].progress # NoProgress
         /\ jobs'[id].progress # NoProgress )
       => jobs'[id].progress.percent >= jobs[id].progress.percent]_vars

\* the Builder of `id` has created its working directory and not yet returned
InWorkDir(id) ==
  /\ run[id] # NotRunning
  /\ run[id].res = NoResult
  /\ \E i \in 1..(run[id].pc - 1) : Script(jobs[id].data.type)[i].pre = "mkdir"

\* C26 as stated: while a task is Active and its Builder is at work, no step
\* of another task's run removes or overwrites its working directory or its
\* input file, also when both tasks have the same application name.
C26_BuildersDoNotInterfere ==
  [][\A a, b \in TaskIds :
       ( /\ a # b
         /\ a \in Active
         /\ InWorkDir(a)
         /\ run'[b] # run[b]
         /\ run'[a] = run[a] )
       => \A q \in { WorkDirPath(jobs[a].data.type, jobs[a].data.appName),
                     ProjectZipPath(a) } \cap DOMAIN files :
            q \in DOMAIN files' /\ files'[q] = files[q]]_vars

\* C29 as stated: whenever getJobStatus reports "completed" it returns the
\* Builder's result with it, and whenever it reports "failed" the failure
\* reason, also when the job finishes between the fetch of the job and the
\* read of its state.
C29_TerminalStatusCarriesOutcome ==
  /\ stat.out.status = "completed" =>
       /\ stat.out.result # NoResult
       /\ jobs[stat.id] # NoJob => stat.out.result = jobs[stat.id].returnvalue
  /\ stat.out.status = "failed" => stat.out.error # ""

\* the fields of the build store that the page shows
Shown(s) == <<s.status, s.progress, s.error, s.downloadUrl>>

\* C30 as stated: at most one poll loop writes to the build store at a time.
\* Once reset() has run, or a build or a restore for another task id has
\* started, a write of the poll loop of the previous task id changes none of
\* the store's status, progress, error and download fields.
C30_StaleLoopNeverWrites ==
  [][(store'.by.kind = "loop" /\ store'.by.id # store.taskId)
       => Shown(store') = Shown(store)]_vars

\* C25: with the worker taking jobs whenever it can and every Builder
\* invocation terminating, every task that waits is eventually dequeued, every
\* task that is Active eventually reaches a terminal state, and the worker
\* does not stay forever with a free slot while a task waits (no task is
\* removed in these runs).
C25_EveryTaskIsRunToTheEnd ==
  /\ \A id \in TaskIds : (jobs[id].state = "waiting") ~> (jobs[id].state = "active")
  /\ \A id \in TaskIds : (jobs[id].state = "active") ~> (jobs[id].state \in Terminal)
  /\ []<>~(Waiting # {} /\ Cardinality(Active) < concurrency)

\* with one slot, a task that waited while the other was built has itself
\* been dequeued once and reached a terminal state
C25_Witness ==
  /\ concurrency = 1
  /\ \E a, b \in TaskIds :
       /\ a # b
       /\ jobs[a].state \in Terminal
       /\ jobs[b].state \in Terminal
       /\ hist[b].behind = 0
       /\ hist[a].behind = 1
       /\ hist[b].execs = 1

\* the progress writes of `id` that are sent and not yet applied
InFlight(id) == {i \in 1..Len(sink.q) : sink.q[i].id = id}

\* C23: the progress writes of a task take effect in the order they were
\* sent, one by one, and a write never takes effect after a later one of the
\* same task; once every write sent for a task has taken effect, a status
\* read returns the percent sent last.
C23_WritesApplyInEmissionOrder ==
  /\ [](\A id \in TaskIds :
          ( /\ jobs[id] # NoJob
            /\ sink.sent[id] > 0
            /\ InFlight(id) = {} )
          => /\ sink.stored[id] = sink.sent[id]
             /\ getJobStatus(id).percent = onProgress(NoProgress, sink.last[id]).percent)
  /\ [][\A id \in TaskIds :
          sink'.stored[id] \in {sink.stored[id], sink.stored[id] + 1}]_vars

\* two writes of one task are in flight at once, after an earlier write of
\* the task has been stored
C23_Witness ==
  \E id \in TaskIds :
    /\ Cardinality(InFlight(id)) = 2
    /\ sink.stored[id] >= 1
    /\ jobs[id].progress # NoProgress

\* a step that changes the stored progress of `id` while its Builder stands
\* still: a heartbeat write
HeartbeatStep(id) ==
  /\ run[id] # NotRunning
  /\ run'[id] = run[id]
  /\ jobs[id] # NoJob
  /\ jobs'[id] # NoJob
  /\ jobs'[id].progress # jobs[id].progress

====
